---- MODULE Spec2Model ----
(***************************************************************************)
(* Model of crates/gpui/src/platform/windows/text_system.rs:               *)
(* WindowsTextSystem = RwLock<WindowsTextSystemState>.                     *)
(*                                                                         *)
(*   Spec       font resolution (font_id, add_fonts, read operations) by   *)
(*              several threads under the parking_lot reader-writer lock   *)
(*   SpecRaster raster_bounds / rasterize_glyph on a constructed state     *)
(*   SpecLayout layout_line on a constructed state                         *)
(*   SpecNew    construction: load_ui_icons_font, the system font          *)
(*              enumeration (collect_system_font_path per font), loading   *)
(*                                                                         *)
(* The font database (fontdb / cosmic_text::FontSystem) and the lock       *)
(* (parking_lot::RwLock) are libraries; they are modelled by the contract  *)
(* of the entry points the source calls.  A font face is a small integer   *)
(* (its fontdb ID); a FontId is a 0-based index into fonts.                *)
(***************************************************************************)
EXTENDS Integers, Sequences, FiniteSets, TLC

VARIABLES
    \* WindowsTextSystemState
    db,                       \* faces known to font_system.db()
    fonts,                    \* Vec<Arc<CosmicTextFont>>: the face of each handle
    font_selections,          \* HashMap<Font, FontId>
    font_ids_by_family_name,  \* HashMap<SharedString, SmallVec<[FontId; 4]>>
    swash_cache,              \* keys held by the SwashCache
    system_font_paths,        \* HashSet<String>
    \* RwLock
    readers, upgr, writer,
    \* callers
    pc, arg, ret, missed,
    \* history: the face the database matched when a Font was resolved
    matched,
    \* last rasterization or line shaping call
    last,
    \* construction and enumeration
    new_pc, enum_i, enum_hdc, cpc, hdcs, hfonts, hfont_valid, selected, defers,
    load_left, collect_ret

stateVars == <<db, fonts, font_selections, font_ids_by_family_name>>
lockVars == <<readers, upgr, writer>>
callVars == <<pc, arg, ret, missed>>
rasterVars == <<swash_cache, last>>
newVars == <<new_pc, enum_i, enum_hdc, cpc, hdcs, hfonts, hfont_valid, selected, defers,
             load_left, collect_ret, system_font_paths>>
vars == <<stateVars, lockVars, callVars, matched, rasterVars, newVars>>

----------------------------------------------------------------------------
(* Bounds of the model *)

NumFaces == 4
NumThreads == 3
NumEnumFonts == 3

(* The logical fonts EnumFontFamiliesExW reports, the file behind each (the
   first two share a file), and the face a file holds *)
EnumFonts == 1..NumEnumFonts
PathOf(i) == (i + 1) \div 2
FaceOfPath(path) == path + 1

(* Faces: 1 is the icon face registered by load_ui_icons_font; the system faces
   are those of the enumerated files; the others arrive through add_fonts. *)
IconFace == 1
Faces == 1..NumFaces
SystemFaces == {FaceOfPath(PathOf(i)) : i \in EnumFonts} \cap Faces
EmbeddedFaces == Faces \ (SystemFaces \cup {IconFace})
Threads == 1..NumThreads
(* The callers of the specification with every operation *)
Callers == {1, 2}

IconFamily == "Segoe Fluent Icons"

(* 2 is Mono Regular, 3 Mono Italic, 4 Mono Bold *)
FaceFamily(x) == IF x = IconFace THEN IconFamily ELSE "Mono"
FaceWeight(x) == IF x = 4 THEN 700 ELSE 400
FaceStyle(x) == IF x = 3 THEN "Italic" ELSE "Normal"

MkFont(fam, w, s) == [family |-> fam, weight |-> w, style |-> s]

(* font("Segoe Fluent Icons"): default weight and style *)
IconFont == MkFont(IconFamily, 400, "Normal")

(* The Font values callers ask for *)
FontRequests ==
    { IconFont,
      MkFont(IconFamily, 700, "Normal"),
      MkFont("Mono", 400, "Normal"),
      MkFont("Mono", 700, "Normal"),
      MkFont("Absent", 400, "Normal") }

(* The Font values the racing threads ask for *)
RaceRequests == { IconFont, MkFont("Mono", 400, "Normal") }

NoFace == 0
NoId == -1
NoThread == 0

NoRet == [kind |-> "none", id |-> NoId]
OkRet(i) == [kind |-> "ok", id |-> i]
ErrRet == [kind |-> "err", id |-> NoId]

----------------------------------------------------------------------------
(* The font database, as font_id and load_family use it *)

SetMin(S) == CHOOSE x \in S : \A y \in S : x <= y
SetMax(S) == CHOOSE x \in S : \A y \in S : x >= y

RECURSIVE SortedSeq(_)
SortedSeq(S) == IF S = {} THEN <<>> ELSE <<SetMin(S)>> \o SortedSeq(S \ {SetMin(S)})

(* From<FontWeight> for cosmic_text::Weight (a saturating cast to u16) and
   From<FontStyle> for cosmic_text::Style *)
WeightInto(w) == IF w < 0 THEN 0 ELSE IF w > 65535 THEN 65535 ELSE w
StyleInto(s) == s

StylePreference(s) ==
    IF s = "Italic" THEN <<"Italic", "Oblique", "Normal">>
    ELSE IF s = "Oblique" THEN <<"Oblique", "Italic", "Normal">>
    ELSE <<"Normal", "Oblique", "Italic">>

(* The weight the database settles on among the weights ws on offer *)
MatchWeight(ws, w) ==
    IF w \in ws THEN w
    ELSE IF w >= 400 /\ w < 450 /\ 500 \in ws THEN 500
    ELSE IF w >= 450 /\ w <= 500 /\ 400 \in ws THEN 400
    ELSE IF w <= 500
         THEN IF {x \in ws : x < w} # {} THEN SetMax({x \in ws : x < w})
              ELSE SetMin({x \in ws : x > w})
         ELSE IF {x \in ws : x > w} # {} THEN SetMin({x \in ws : x > w})
              ELSE SetMax({x \in ws : x < w})

(* db().query(&Query { families: [Name(family)], weight, style, stretch: default }):
   the best match among the faces of the family, or NoFace *)
Query(d, font) ==
    LET cands == {x \in d : FaceFamily(x) = font.family}
        pref == StylePreference(StyleInto(font.style))
        k == SetMin({i \in 1..3 : \E x \in cands : FaceStyle(x) = pref[i]})
        byStyle == {x \in cands : FaceStyle(x) = pref[k]}
        mw == MatchWeight({FaceWeight(x) : x \in byStyle}, WeightInto(font.weight))
    IN  IF cands = {} THEN NoFace
        ELSE SetMin({x \in byStyle : FaceWeight(x) = mw})

(* font_system.get_font_matches(Attrs::new().family(Name(name))): taken to
   return the faces of the named family, in database order, which is what
   load_family and the Family cache use it for *)
GetFontMatches(d, name) == SortedSeq({x \in d : FaceFamily(x) = name})

(* FontId(self.fonts.len()): the id the next pushed handle gets *)
NextFontIdOffByOne(fs) == Len(fs) + 1
NextFontId(fs) == Len(fs)

(* load_family: every face of the family is pushed, each under a new FontId *)
LoadFamily(fs, d, name) ==
    LET family == GetFontMatches(d, name)
    IN  [fonts |-> fs \o family,
         font_ids |-> [i \in 1..Len(family) |-> NextFontId(fs) + (i - 1)]]

(* lock.fonts.iter().position(|font| font.id() == id) *)
PositionLast(fs, id) ==
    IF \E i \in 1..Len(fs) : fs[i] = id
    THEN SetMax({i \in 1..Len(fs) : fs[i] = id}) - 1
    ELSE NoId
Position(fs, id) ==
    IF \E i \in 1..Len(fs) : fs[i] = id
    THEN SetMin({i \in 1..Len(fs) : fs[i] = id}) - 1
    ELSE NoId

(* lock.font_selections.get(font) *)
SelectionsGetNever(sel, font) == NoId
SelectionsGet(sel, font) == IF font \in DOMAIN sel THEN sel[font] ELSE NoId

(* HashMap::insert *)
MapInsert(m, k, v) == (k :> v) @@ m

----------------------------------------------------------------------------
(* parking_lot::RwLock: who may take which guard *)

CanRead == writer = NoThread

CanUpgradableReadShared == writer = NoThread
CanUpgradableRead == writer = NoThread /\ upgr = NoThread

CanUpgradeAtOnce == TRUE
CanUpgrade == readers = {}

CanWrite == writer = NoThread /\ upgr = NoThread /\ readers = {}

----------------------------------------------------------------------------
(* Font resolution: PlatformTextSystem for WindowsTextSystem *)

UnchangedNew == UNCHANGED newVars
UnchangedRaster == UNCHANGED rasterVars

(* A caller enters font_id(font) *)
FontIdCall(t, font) ==
    /\ new_pc = "running"
    /\ pc[t] = "idle"
    /\ pc' = [pc EXCEPT ![t] = "acquire"]
    /\ arg' = [arg EXCEPT ![t] = font]
    /\ ret' = [ret EXCEPT ![t] = NoRet]
    /\ missed' = [missed EXCEPT ![t] = font \notin DOMAIN font_selections]
    /\ UNCHANGED <<stateVars, lockVars, matched>>
    /\ UnchangedRaster /\ UnchangedNew

(* let lock = self.0.upgradable_read() *)
FontIdLock(t) ==
    /\ pc[t] = "acquire"
    /\ CanUpgradableRead
    /\ upgr' = t
    /\ pc' = [pc EXCEPT ![t] = "locked"]
    /\ UNCHANGED <<stateVars, readers, writer, arg, ret, missed, matched>>
    /\ UnchangedRaster /\ UnchangedNew

(* if let Some(font_id) = lock.font_selections.get(font) { return the cached id } *)
FontIdHit(t) ==
    /\ pc[t] = "locked"
    /\ SelectionsGet(font_selections, arg[t]) # NoId
    /\ ret' = [ret EXCEPT ![t] = OkRet(SelectionsGet(font_selections, arg[t]))]
    /\ upgr' = NoThread
    /\ pc' = [pc EXCEPT ![t] = "idle"]
    /\ UNCHANGED <<stateVars, readers, writer, arg, missed, matched>>
    /\ UnchangedRaster /\ UnchangedNew

(* else { let mut lock = RwLockUpgradableReadGuard::upgrade(lock); *)
FontIdUpgrade(t) ==
    /\ pc[t] = "locked"
    /\ SelectionsGet(font_selections, arg[t]) = NoId
    /\ CanUpgrade
    /\ upgr' = NoThread
    /\ writer' = t
    /\ pc' = [pc EXCEPT ![t] = "write"]
    /\ UNCHANGED <<stateVars, readers, arg, ret, missed, matched>>
    /\ UnchangedRaster /\ UnchangedNew

(* The write section of font_id: the family's candidates, the database query,
   the handle's FontId, the new font_selections entry *)
FontIdResolve(font) ==
    LET cached == font.family \in DOMAIN font_ids_by_family_name
        lf == LoadFamily(fonts, db, font.family)
        fonts1 == IF cached THEN fonts ELSE lf.fonts
        fam1 == IF cached THEN font_ids_by_family_name
                ELSE MapInsert(font_ids_by_family_name, font.family, lf.font_ids)
        id == Query(db, font)
        pos == Position(fonts1, id)
        font_id == IF pos # NoId THEN pos ELSE NextFontId(fonts1)
    IN  IF id = NoFace
        THEN [fonts |-> fonts1, families |-> fam1, selections |-> font_selections,
              matched |-> matched, ret |-> ErrRet]
        ELSE [fonts |-> IF pos # NoId THEN fonts1 ELSE Append(fonts1, id),
              families |-> fam1,
              selections |-> MapInsert(font_selections, font, font_id),
              matched |-> MapInsert(matched, font, id),
              ret |-> OkRet(font_id)]

(* The miss path runs the write section and drops the guard on return *)
FontIdMiss(t) ==
    /\ pc[t] = "write"
    /\ LET r == FontIdResolve(arg[t])
       IN  /\ fonts' = r.fonts
           /\ font_ids_by_family_name' = r.families
           /\ font_selections' = r.selections
           /\ matched' = r.matched
           /\ ret' = [ret EXCEPT ![t] = r.ret]
    /\ writer' = NoThread
    /\ pc' = [pc EXCEPT ![t] = "idle"]
    /\ UNCHANGED <<db, readers, upgr, arg, missed>>
    /\ UnchangedRaster /\ UnchangedNew

(* add_fonts: self.0.write().add_fonts(fonts); every byte buffer that parses
   adds its faces to the database *)
AddFonts(t, added) ==
    /\ new_pc = "running"
    /\ pc[t] = "idle"
    /\ CanWrite
    /\ added # {}
    /\ ~(added \subseteq db)
    /\ db' = db \cup added
    /\ UNCHANGED <<fonts, font_selections, font_ids_by_family_name>>
    /\ UNCHANGED <<lockVars, callVars, matched>>
    /\ UnchangedRaster /\ UnchangedNew

(* font_metrics, typographic_bounds, advance, glyph_for_char, all_font_names,
   all_font_families: self.0.read() for the length of the call *)
ReadLock(t) ==
    /\ new_pc = "running"
    /\ pc[t] = "idle"
    /\ CanRead
    /\ readers' = readers \cup {t}
    /\ pc' = [pc EXCEPT ![t] = "reading"]
    /\ UNCHANGED <<stateVars, upgr, writer, arg, ret, missed, matched>>
    /\ UnchangedRaster /\ UnchangedNew

ReadUnlock(t) ==
    /\ pc[t] = "reading"
    /\ readers' = readers \ {t}
    /\ pc' = [pc EXCEPT ![t] = "idle"]
    /\ UNCHANGED <<stateVars, upgr, writer, arg, ret, missed, matched>>
    /\ UnchangedRaster /\ UnchangedNew

----------------------------------------------------------------------------
(* The state new() leaves: the icon face registered as FontId(0), the system
   face in the database if its file loaded, the lock free *)

RasterIdle == [op |-> "none"]

ConstructedState(d) ==
    /\ db = d
    /\ fonts = <<IconFace>>
    /\ font_selections = (IconFont :> 0)
    /\ font_ids_by_family_name = <<>>
    /\ matched = (IconFont :> IconFace)
    /\ swash_cache = {}
    /\ readers = {} /\ upgr = NoThread /\ writer = NoThread

NewDone ==
    /\ new_pc = "running"
    /\ enum_i = 0 /\ enum_hdc = 0 /\ cpc = "none" /\ hdcs = 0 /\ hfonts = 0
    /\ hfont_valid = FALSE /\ selected = FALSE /\ defers = <<>>
    /\ load_left = {} /\ collect_ret = "none"
    /\ system_font_paths = {}

CallersIdle ==
    /\ pc = [t \in Threads |-> "idle"]
    /\ arg = [t \in Threads |-> IconFont]
    /\ ret = [t \in Threads |-> NoRet]
    /\ missed = [t \in Threads |-> FALSE]

Init ==
    /\ \E sys \in SUBSET SystemFaces : ConstructedState({IconFace} \cup sys)
    /\ CallersIdle
    /\ last = RasterIdle
    /\ NewDone

Next ==
    \/ \E t \in Callers : \E font \in FontRequests : FontIdCall(t, font)
    \/ \E t \in Callers : FontIdLock(t)
    \/ \E t \in Callers : FontIdHit(t)
    \/ \E t \in Callers : FontIdUpgrade(t)
    \/ \E t \in Callers : FontIdMiss(t)
    \/ \E t \in Callers : \E added \in SUBSET EmbeddedFaces : AddFonts(t, added)

Spec == Init /\ [][Next]_vars

(* Every thread racing through font_id and the read operations *)
InitConc ==
    /\ ConstructedState({IconFace} \cup SystemFaces)
    /\ CallersIdle
    /\ last = RasterIdle
    /\ NewDone

NextConc ==
    \/ \E t \in Threads : \E font \in RaceRequests : FontIdCall(t, font)
    \/ \E t \in Threads : FontIdLock(t)
    \/ \E t \in Threads : FontIdHit(t)
    \/ \E t \in Threads : FontIdUpgrade(t)
    \/ \E t \in Threads : FontIdMiss(t)
    \/ \E t \in Threads : ReadLock(t)
    \/ \E t \in Threads : ReadUnlock(t)

SpecConc == InitConc /\ [][NextConc]_vars

----------------------------------------------------------------------------
(* Properties of font resolution *)

Range(f) == {f[x] : x \in DOMAIN f}
ValidId(i) == i >= 0 /\ i < Len(fonts)
HandleOf(i) == fonts[i + 1]
Returned(t) == ret[t].kind = "ok"
IsHit(font) == SelectionsGet(font_selections, font) # NoId

(* Every FontId a call returned is the Font Selections entry of its Font, and
   two callers holding results for one Font hold the same FontId *)
C1_ReturnsTheEntry ==
    /\ \A t \in Threads : Returned(t) =>
          /\ arg[t] \in DOMAIN font_selections
          /\ font_selections[arg[t]] = ret[t].id
    /\ \A t1, t2 \in Threads :
          (Returned(t1) /\ Returned(t2) /\ arg[t1] = arg[t2]) => ret[t1].id = ret[t2].id
(* A step keeps every Font Selections entry as it is *)
C1_EntryKept ==
    \A font \in DOMAIN font_selections :
        /\ font \in DOMAIN font_selections'
        /\ font_selections'[font] = font_selections[font]

(* C1: after any sequence of operations, two successful font_id calls with the
   same Font return the same FontId: every FontId returned is the Font's entry
   in the Font Selections cache, and an entry, once made, is never changed or
   removed. *)
C1_SameFontSameId == [] C1_ReturnsTheEntry /\ [][C1_EntryKept]_vars

(* Reached: one caller resolved a Font on a miss, another got it from the
   cache, and meanwhile add_fonts made the database prefer another face. *)
C1_Witness ==
    \E t1, t2 \in Threads :
        /\ t1 # t2 /\ Returned(t1) /\ Returned(t2) /\ arg[t1] = arg[t2]
        /\ missed[t1] /\ ~missed[t2]
        /\ Query(db, arg[t1]) # matched[arg[t1]]

(* C2: two Fonts for which the database query returned the same face have the
   same FontId, in the cache and in what the calls returned. *)
C2_SameFaceSameId ==
    /\ \A f1, f2 \in DOMAIN font_selections :
          matched[f1] = matched[f2] => font_selections[f1] = font_selections[f2]
    /\ \A t1, t2 \in Threads :
          (Returned(t1) /\ Returned(t2) /\ matched[arg[t1]] = matched[arg[t2]])
              => ret[t1].id = ret[t2].id

(* Reached: two different Fonts matched one face, whose handle is in the list
   more than once. *)
C2_Witness ==
    \E t1, t2 \in Threads :
        /\ Returned(t1) /\ Returned(t2) /\ arg[t1] # arg[t2]
        /\ matched[arg[t1]] = matched[arg[t2]]
        /\ Cardinality({i \in 1..Len(fonts) : fonts[i] = matched[arg[t1]]}) > 1

(* Every FontId returned, or held by either cache, indexes the list, at a handle
   of the face it was minted for *)
C3_IdsValid ==
    /\ \A t \in Threads : Returned(t) =>
          ValidId(ret[t].id) /\ HandleOf(ret[t].id) = matched[arg[t]]
    /\ \A font \in DOMAIN font_selections :
          /\ ValidId(font_selections[font])
          /\ HandleOf(font_selections[font]) = matched[font]
    /\ \A name \in DOMAIN font_ids_by_family_name :
          \A i \in Range(font_ids_by_family_name[name]) :
              ValidId(i) /\ FaceFamily(HandleOf(i)) = name
(* A step only appends to the loaded-font list *)
C3_AppendOnly ==
    /\ Len(fonts') >= Len(fonts)
    /\ \A i \in 1..Len(fonts) : fonts'[i] = fonts[i]

(* C3: every FontId that font_id returned or that either cache holds is a valid
   index into the loaded-font list, at the handle it was minted for, and the
   list only grows by appending: no entry is removed, replaced or reordered. *)
C3_FontIdsStayValid == [] C3_IdsValid /\ [][C3_AppendOnly]_vars

(* Reached: ids minted by load_family and by font_id's own push are in use. *)
C3_Witness ==
    /\ Len(fonts) >= 4
    /\ \E name \in DOMAIN font_ids_by_family_name : Len(font_ids_by_family_name[name]) >= 1
    /\ \E font \in DOMAIN font_selections :
          /\ font.family \in DOMAIN font_ids_by_family_name
          /\ font_selections[font] \notin Range(font_ids_by_family_name[font.family])
          /\ font_selections[font] > 0

(* C4: the FontId cached for a Font is one of the FontIds the Family cache
   lists for the Font's family, whenever both entries exist. *)
C4_CachesAgree ==
    \A font \in DOMAIN font_selections :
        font.family \in DOMAIN font_ids_by_family_name
            => font_selections[font] \in Range(font_ids_by_family_name[font.family])

(* No face has its handle at two indexes of the loaded-font list *)
C11_NoFaceTwice ==
    \A i, j \in 1..Len(fonts) : fonts[i] = fonts[j] => i = j
(* A step that changes the loaded-font list is a font_id write section that
   appends one handle, of the face the query matched, which was not in the list *)
C11_AppendsOnlyMatched ==
    fonts' # fonts =>
        \E t \in Threads :
            /\ pc[t] = "write"
            /\ Query(db, arg[t]) # NoFace
            /\ Query(db, arg[t]) \notin Range(fonts)
            /\ fonts' = Append(fonts, Query(db, arg[t]))

(* C11: a font_id call appends a handle to the loaded-font list only for the
   matched face and only when that face is not yet in the list, so that in
   every reachable state no face is at more than one index of the list, also
   after a miss that populates the Family cache of a family with faces
   already loaded. *)
C11_FacesLoadedOnce == [] C11_NoFaceTwice /\ [][C11_AppendsOnlyMatched]_vars

----------------------------------------------------------------------------
(* Properties of the locking in font_id *)

HoldsExclusively(t) ==
    /\ writer = t
    /\ upgr = NoThread
    /\ readers = {}

(* The threads inside font_id's guarded section *)
InFontId == {t \in Threads : pc[t] \in {"locked", "write"}}

(* Threads that entered font_id with the same Font while it had no entry hold
   the same FontId, which is the Font's entry *)
C9_RacersAgree ==
    \A t1, t2 \in Threads :
        (/\ Returned(t1) /\ Returned(t2)
         /\ missed[t1] /\ missed[t2]
         /\ arg[t1] = arg[t2])
            => /\ ret[t1].id = ret[t2].id
               /\ SelectionsGet(font_selections, arg[t1]) = ret[t1].id
(* A step that appends to the loaded-font list is taken by a thread in the
   write section, holding the lock with no reader or upgradable reader beside *)
C9_ExclusiveAppend ==
    fonts' # fonts => \E t \in Threads : pc[t] = "write" /\ HoldsExclusively(t)

(* C9: in every interleaving, threads that call font_id concurrently with the
   same Font that has no entry yet all return the same FontId, the cache ends
   up holding exactly that FontId, and every append to the loaded-font list
   happens while the appending thread holds the lock exclusively. *)
C9_ConcurrentMiss == [] C9_RacersAgree /\ [][C9_ExclusiveAppend]_vars

(* Reached: two threads entered font_id with the same uncached Font, both
   have returned, and a third holds a read guard. *)
C9_Witness ==
    \E t1, t2 \in Threads :
        /\ t1 # t2 /\ arg[t1] = arg[t2]
        /\ missed[t1] /\ missed[t2]
        /\ Returned(t1) /\ Returned(t2)
        /\ readers # {}

(* C10 as claimed: cache-hit font_id calls hold their guards side by side, so a
   cache-hit call that wants the lock while only cache-hit calls and read
   operations hold it can take it. *)
C10_HitNeverWaitsForHit ==
    \A t1, t2 \in Threads :
        (/\ t1 # t2
         /\ pc[t1] = "acquire" /\ IsHit(arg[t1])
         /\ pc[t2] = "locked" /\ IsHit(arg[t2])
         /\ writer = NoThread)
            => ENABLED FontIdLock(t1)

(* C10 amended: a cache-hit font_id call holds the upgradable read guard, never
   the write guard; read operations may hold read guards beside it, but at most
   one font_id call, hit or miss, is inside the lock at a time. *)
C10_HitIsUpgradableRead ==
    /\ \A t \in Threads :
          pc[t] = "locked" => (upgr = t /\ writer = NoThread /\ t \notin readers)
    /\ \A t \in Threads : pc[t] = "write" => writer = t
    /\ Cardinality(InFontId) <= 1

(* Reached: a cache-hit call holds its guard while a read operation holds a
   read guard and another cache-hit call waits for the lock. *)
C10_Witness ==
    \E t1, t2, t3 \in Threads :
        /\ pc[t1] = "locked" /\ IsHit(arg[t1])
        /\ pc[t2] = "reading" /\ t2 \in readers
        /\ pc[t3] = "acquire" /\ IsHit(arg[t3])

----------------------------------------------------------------------------
(* Rasterization: raster_bounds and rasterize_glyph, each under self.0.write() *)

(* The SwashCache is let grow to MaxCached images *)
MaxCached == 2

GlyphIds == {0, 1}
FontSizes == {1}
ScaleFactors == {1, 2}
Extents == {0, 1, 2}

MkParams(i, g, fs, sf) == [font_id |-> i, glyph_id |-> g, font_size |-> fs, scale_factor |-> sf]
MkBounds(w, h) == [width |-> w, height |-> h]

(* The rasterizer (swash): a face has its glyphs 0 .. GlyphCount - 1; the image
   of a glyph at a scaled size has the placement below; glyph 0 has no ink. *)
GlyphCount(face) == face
ImageWidth(face, g, scaled) == g * scaled
ImageHeight(face, g, scaled) == scaled

(* (params.font_size * params.scale_factor).into() *)
ScaledSize(p) == p.font_size * p.scale_factor

(* CacheKey::new(font.id(), glyph_id as u16, scaled size, (0.0, 0.0)).0 *)
CacheKeyNew(fs, p) == <<fs[p.font_id + 1], p.glyph_id % 65536, ScaledSize(p)>>

(* swash_cache.get_image(font_system, key): Some(image) or None *)
HasImage(key) == key[2] < GlyphCount(key[1])
ImageSize(key) == MkBounds(ImageWidth(key[1], key[2], key[3]), ImageHeight(key[1], key[2], key[3]))

NoSize == MkBounds(0, 0)
RasterResult(kind, size, data) == [kind |-> kind, size |-> size, data |-> data]
Panic == RasterResult("panic", NoSize, NoSize)

(* &self.fonts[params.font_id.0] *)
InFonts(fs, p) == p.font_id >= 0 /\ p.font_id < Len(fs)

(* glyph_bounds.size.width.0 == 0 || glyph_bounds.size.height.0 == 0 *)
IsEmptyBoundsBoth(b) == b.width = 0 /\ b.height = 0
IsEmptyBounds(b) == b.width = 0 \/ b.height = 0

(* let bitmap_size = glyph_bounds.size *)
BitmapSizeWider(b) == MkBounds(b.width + 1, b.height)
BitmapSize(b) == MkBounds(b.width, b.height)

(* What raster_bounds(params) returns: the image's placement size *)
RasterBoundsResult(fs, p) ==
    IF ~InFonts(fs, p) THEN Panic
    ELSE IF ~HasImage(CacheKeyNew(fs, p)) THEN Panic
    ELSE RasterResult("ok", ImageSize(CacheKeyNew(fs, p)), NoSize)

(* What rasterize_glyph(params, glyph_bounds) returns: the size it was given and
   the image's pixels (data stands for them by the image's own dimensions) *)
RasterizeResult(fs, p, b) ==
    IF IsEmptyBounds(b) THEN RasterResult("err", NoSize, NoSize)
    ELSE IF ~InFonts(fs, p) THEN Panic
    ELSE IF ~HasImage(CacheKeyNew(fs, p)) THEN Panic
    ELSE RasterResult("ok", BitmapSize(b), ImageSize(CacheKeyNew(fs, p)))

(* The SwashCache after get_image(key) *)
CacheAfter(cache, key) == cache \cup {key}
CacheHasRoom(cache, key) == key \in cache \/ Cardinality(cache) < MaxCached

RasterBounds(p) ==
    /\ CanWrite
    /\ InFonts(fonts, p) => CacheHasRoom(swash_cache, CacheKeyNew(fonts, p))
    /\ swash_cache' = IF InFonts(fonts, p)
                      THEN CacheAfter(swash_cache, CacheKeyNew(fonts, p))
                      ELSE swash_cache
    /\ last' = [op |-> "raster_bounds", params |-> p, bounds |-> NoSize,
                result |-> RasterBoundsResult(fonts, p)]
    /\ UNCHANGED <<stateVars, lockVars, callVars, matched>>
    /\ UnchangedNew

RasterizeGlyph(p, b) ==
    /\ CanWrite
    /\ (~IsEmptyBounds(b) /\ InFonts(fonts, p))
          => CacheHasRoom(swash_cache, CacheKeyNew(fonts, p))
    /\ swash_cache' = IF ~IsEmptyBounds(b) /\ InFonts(fonts, p)
                      THEN CacheAfter(swash_cache, CacheKeyNew(fonts, p))
                      ELSE swash_cache
    /\ last' = [op |-> "rasterize_glyph", params |-> p, bounds |-> b,
                result |-> RasterizeResult(fonts, p, b)]
    /\ UNCHANGED <<stateVars, lockVars, callVars, matched>>
    /\ UnchangedNew

(* A state font resolution reaches: font_id(Mono 400) after construction *)
MonoFont == MkFont("Mono", 400, "Normal")
ResolvedState ==
    /\ db = {IconFace, 2}
    /\ fonts = <<IconFace, 2>>
    /\ font_selections = (IconFont :> 0) @@ (MonoFont :> 1)
    /\ font_ids_by_family_name = ("Mono" :> <<1>>)
    /\ matched = (IconFont :> IconFace) @@ (MonoFont :> 2)
    /\ swash_cache = {}
    /\ readers = {} /\ upgr = NoThread /\ writer = NoThread

InitRaster ==
    /\ \/ ConstructedState({IconFace})
       \/ ResolvedState
    /\ CallersIdle
    /\ last = RasterIdle
    /\ NewDone

RasterParams ==
    {MkParams(i, g, fs, sf) : i \in 0..2, g \in GlyphIds, fs \in FontSizes, sf \in ScaleFactors}
RasterBoundsArgs == {MkBounds(w, h) : w \in Extents, h \in Extents}

NextRaster ==
    \/ \E p \in RasterParams : RasterBounds(p)
    \/ \E p \in RasterParams : \E b \in RasterBoundsArgs : RasterizeGlyph(p, b)

SpecRaster == InitRaster /\ [][NextRaster]_vars

(* The last call, if rasterize_glyph on bounds of zero width or zero height,
   returned an error *)
C7_EmptyIsError ==
    (/\ last.op = "rasterize_glyph"
     /\ (last.bounds.width = 0 \/ last.bounds.height = 0))
        => last.result.kind = "err"
(* A rasterize_glyph step on such bounds leaves the rasterization cache alone *)
C7_CacheUntouched ==
    (/\ last'.op = "rasterize_glyph"
     /\ (last'.bounds.width = 0 \/ last'.bounds.height = 0))
        => swash_cache' = swash_cache

(* C7: rasterize_glyph given bounds of zero width or zero height returns an
   error, never a (size, pixels) result, for every font, glyph, size and scale
   factor, and leaves the rasterization cache as it was. *)
C7_EmptyBoundsRejected == [] C7_EmptyIsError /\ [][C7_CacheUntouched]_vars

(* Reached: a zero-height request for a glyph that has an image and is not in
   the cache. *)
C7_Witness ==
    /\ last.op = "rasterize_glyph"
    /\ last.bounds.width > 0 /\ last.bounds.height = 0
    /\ InFonts(fonts, last.params)
    /\ HasImage(CacheKeyNew(fonts, last.params))
    /\ CacheKeyNew(fonts, last.params) \notin swash_cache

BothSucceed ==
    /\ last.op = "rasterize_glyph"
    /\ last.result.kind = "ok"
    /\ RasterBoundsResult(fonts, last.params).kind = "ok"

(* C8 as claimed: whatever non-empty bounds rasterize_glyph is given, the size it
   reports is the size raster_bounds reports for the same params. *)
C8_SizesAgree ==
    BothSucceed => last.result.size = RasterBoundsResult(fonts, last.params).size

(* C8 amended: the sizes agree when the bounds given to rasterize_glyph have the
   size raster_bounds reports for the params. *)
C8_SizesAgreeForReportedBounds ==
    (/\ BothSucceed
     /\ last.bounds = RasterBoundsResult(fonts, last.params).size)
        => last.result.size = RasterBoundsResult(fonts, last.params).size

(* Reached: rasterize_glyph succeeded on the bounds raster_bounds reports. *)
C8_Witness ==
    /\ BothSucceed
    /\ last.bounds = RasterBoundsResult(fonts, last.params).size
    /\ last.params.font_id > 0

----------------------------------------------------------------------------
(* Line shaping: layout_line.  A text is a sequence of characters of one byte
   each; a FontRun is a FontId and the length of its span. *)

MaxTextLen == 2

(* "a" is a letter the Mono faces have, "icon" a private-use code point only
   the icon face has, "none" a code point no face has *)
Chars == {"a", "icon", "none"}
HasGlyph(face, ch) == IF face = IconFace THEN ch = "icon" ELSE ch = "a"

MkRun(id, len) == [font_id |-> id, len |-> len]

(* Attrs::new().family(first family).stretch(..).style(..).weight(..) of the
   database face behind a handle; every face of the model has normal stretch *)
AttrsOf(face) ==
    [family |-> FaceFamily(face), stretch |-> "Normal",
     style |-> FaceStyle(face), weight |-> FaceWeight(face)]

(* &self.fonts[run.font_id.0] for every run *)
RunsInFonts(fs, runs) ==
    \A k \in 1..Len(runs) : runs[k].font_id >= 0 /\ runs[k].font_id < Len(fs)

(* attrs_list: the attributes of the span byte i lies in, spans laid end to end
   from offset 0 *)
RECURSIVE SpanAttrs(_, _, _)
SpanAttrs(fs, runs, i) ==
    IF i <= Head(runs).len
    THEN AttrsOf(fs[Head(runs).font_id + 1])
    ELSE SpanAttrs(fs, Tail(runs), i - Head(runs).len)

(* The faces the shaping engine may take a character's glyph from: a database
   face of the span's attributes that has the character; failing that a
   fallback face, any other database face that has it; failing that a face of
   the span's attributes, with the missing glyph *)
EngineFaces(d, attrs, ch) ==
    LET own == {x \in d : AttrsOf(x) = attrs}
    IN  IF \E x \in own : HasGlyph(x, ch) THEN {x \in own : HasGlyph(x, ch)}
        ELSE IF \E x \in d : HasGlyph(x, ch) THEN {x \in d : HasGlyph(x, ch)}
        ELSE own

(* layout.first().glyphs: one glyph per character, in text order *)
MkGlyph(face, ch, start) ==
    [font_id |-> face, glyph_id |-> IF HasGlyph(face, ch) THEN 1 ELSE 0, start |-> start]

Shapings(fs, d, text, runs) ==
    { [i \in 1..Len(text) |-> MkGlyph(faces[i], text[i], i - 1)] :
        faces \in { f \in [1..Len(text) -> d] :
                      \A i \in 1..Len(text) :
                          f[i] \in EngineFaces(d, SpanAttrs(fs, runs, i), text[i]) } }

LayoutPanic == [kind |-> "panic"]

(* ShapedRun { font_id, glyphs } holding the one ShapedGlyph of a glyph *)
ShapedRunOf(fs, glyph) ==
    [font_id |-> Position(fs, glyph.font_id),
     glyphs |-> <<[id |-> glyph.glyph_id, index |-> glyph.start]>>]

(* The loop over layout.glyphs and the LineLayout returned; position(..).unwrap()
   panics on a glyph whose face has no handle in the list *)
LineLayoutOf(fs, text, glyphs) ==
    IF \E i \in 1..Len(glyphs) : Position(fs, glyphs[i].font_id) = NoId
    THEN LayoutPanic
    ELSE [kind |-> "ok",
          runs |-> [i \in 1..Len(glyphs) |-> ShapedRunOf(fs, glyphs[i])],
          len |-> Len(text)]

(* self.0.write().layout_line(text, font_size, runs) *)
LayoutLine(text, runs) ==
    /\ CanWrite
    /\ IF RunsInFonts(fonts, runs)
       THEN \E glyphs \in Shapings(fonts, db, text, runs) :
               last' = [op |-> "layout_line", text |-> text, runs |-> runs,
                        glyphs |-> glyphs,
                        result |-> LineLayoutOf(fonts, text, glyphs)]
       ELSE last' = [op |-> "layout_line", text |-> text, runs |-> runs,
                     glyphs |-> <<>>, result |-> LayoutPanic]
    /\ UNCHANGED <<stateVars, lockVars, callVars, matched, swash_cache>>
    /\ UnchangedNew

(* The texts of up to MaxTextLen characters *)
Texts == UNION {[1..n -> Chars] : n \in 0..MaxTextLen}

(* The run lists whose spans cover n bytes, over the FontIds ids *)
RECURSIVE RunLists(_, _)
RunLists(n, ids) ==
    IF n = 0 THEN {<<>>}
    ELSE UNION { { <<MkRun(id, k)>> \o rest : id \in ids, rest \in RunLists(n - k, ids) } :
                   k \in 1..n }

InitLayout ==
    /\ \/ \E sys \in SUBSET SystemFaces : ConstructedState({IconFace} \cup sys)
       \/ ResolvedState
    /\ CallersIdle
    /\ last = RasterIdle
    /\ NewDone

(* The FontId one past the list stands for the ids that index nothing *)
NextLayout ==
    \E text \in Texts : \E runs \in RunLists(Len(text), 0..Len(fonts)) :
        LayoutLine(text, runs)

SpecLayout == InitLayout /\ [][NextLayout]_vars

(* C12: a layout_line call whose runs all carry valid FontIds returns a
   LineLayout, never fails, and emits every glyph of the shaping engine as one
   single-glyph run, in the engine's order, under a FontId that indexes a handle
   of the glyph's face, whether the engine took the glyph from the run's own
   face or from a fallback face. *)
C12_EveryGlyphEmitted ==
    (/\ last.op = "layout_line"
     /\ \A k \in 1..Len(last.runs) : ValidId(last.runs[k].font_id))
        => /\ last.result.kind = "ok"
           /\ Len(last.result.runs) = Len(last.glyphs)
           /\ \A i \in 1..Len(last.glyphs) :
                 /\ ValidId(last.result.runs[i].font_id)
                 /\ HandleOf(last.result.runs[i].font_id) = last.glyphs[i].font_id
                 /\ Len(last.result.runs[i].glyphs) = 1
                 /\ last.result.runs[i].glyphs[1].id = last.glyphs[i].glyph_id
                 /\ last.result.runs[i].glyphs[1].index = last.glyphs[i].start

----------------------------------------------------------------------------
(* Construction: WindowsTextSystem::new *)

UnchangedCallers == UNCHANGED <<lockVars, callVars>>

(* State before this.load_ui_icons_font() *)
InitNew ==
    /\ db = {} /\ fonts = <<>>
    /\ font_selections = <<>> /\ font_ids_by_family_name = <<>>
    /\ matched = <<>>
    /\ swash_cache = {} /\ system_font_paths = {}
    /\ readers = {} /\ upgr = NoThread /\ writer = NoThread
    /\ CallersIdle
    /\ last = RasterIdle
    /\ new_pc = "start"
    /\ enum_i = 0 /\ enum_hdc = 0 /\ cpc = "none" /\ hdcs = 0 /\ hfonts = 0
    /\ hfont_valid = FALSE /\ selected = FALSE /\ defers = <<>>
    /\ load_left = {} /\ collect_ret = "none"

(* load_ui_icons_font: push_face_info, get_font_matches(..).first().unwrap(),
   get_font(..).unwrap(), font_selections.insert, fonts.push.  loads: whether
   get_font can load the icon font's file. *)
LoadUiIconsFont(loads) ==
    /\ new_pc = "start"
    /\ db' = db \cup {IconFace}
    /\ LET family == GetFontMatches(db \cup {IconFace}, IconFamily)
       IN  IF Len(family) = 0 \/ ~loads
           THEN /\ new_pc' = "panicked"
                /\ UNCHANGED <<fonts, font_selections, matched>>
           ELSE /\ new_pc' = "icons_done"
                /\ font_selections' = MapInsert(font_selections, IconFont, NextFontId(fonts))
                /\ matched' = MapInsert(matched, IconFont, family[1])
                /\ fonts' = Append(fonts, family[1])
    /\ UNCHANGED <<font_ids_by_family_name, enum_i, enum_hdc, cpc, hdcs, hfonts,
                   hfont_valid, selected, defers, load_left, collect_ret,
                   system_font_paths>>
    /\ UnchangedRaster /\ UnchangedCallers

(* load_system_fonts: system_font_paths.clear(); EnumFontFamiliesExW(GetDC(..), ..) *)
EnumBegin ==
    /\ new_pc = "icons_done"
    /\ system_font_paths' = {}
    /\ enum_hdc' = enum_hdc + 1
    /\ enum_i' = 1
    /\ new_pc' = "enumerating"
    /\ UNCHANGED <<cpc, hdcs, hfonts, hfont_valid, selected, defers, load_left, collect_ret>>
    /\ UNCHANGED <<stateVars, matched>>
    /\ UnchangedRaster /\ UnchangedCallers

enumRest == <<new_pc, enum_hdc, load_left>>

(* load_system_font_enum_fn: a font that is not TrueType is passed over *)
EnumCallback(truetype) ==
    /\ new_pc = "enumerating" /\ cpc = "none"
    /\ enum_i \in EnumFonts
    /\ IF truetype
       THEN /\ cpc' = "GetDC"
            /\ collect_ret' = "none"
            /\ UNCHANGED enum_i
       ELSE /\ enum_i' = enum_i + 1
            /\ UNCHANGED <<cpc, collect_ret>>
    /\ UNCHANGED <<hdcs, hfonts, hfont_valid, selected, defers, system_font_paths>>
    /\ UNCHANGED enumRest
    /\ UNCHANGED <<stateVars, matched>>
    /\ UnchangedRaster /\ UnchangedCallers

(* The guards dropped when collect_system_font_path returns, last made first:
   SelectObject(hdc, prev_selection), then DeleteObject(hfont) *)
RECURSIVE RunDefers(_, _)
RunDefers(ds, st) ==
    IF ds = <<>> THEN st
    ELSE LET d == ds[Len(ds)]
             st1 == IF d = "SelectObject"
                    THEN [st EXCEPT !.selected = FALSE]
                    ELSE IF st.hfont_valid /\ ~st.selected
                         THEN [st EXCEPT !.hfonts = st.hfonts - 1, !.hfont_valid = FALSE]
                         ELSE st
         IN  RunDefers(SubSeq(ds, 1, Len(ds) - 1), st1)

(* The function returns with r: its guards run, the callback logs an error and
   returns 1, the enumeration goes on to the next font *)
CollectReturns(r, ds, st) ==
    LET after == RunDefers(ds, st)
    IN  /\ hfonts' = after.hfonts
        /\ hfont_valid' = after.hfont_valid
        /\ selected' = after.selected
        /\ defers' = <<>>
        /\ collect_ret' = r
        /\ cpc' = "none"
        /\ enum_i' = enum_i + 1

HandleState == [hfonts |-> hfonts, hfont_valid |-> hfont_valid, selected |-> selected]

(* let hdc = GetDC(HWND::default()) *)
CollectGetDC ==
    /\ new_pc = "enumerating" /\ cpc = "GetDC"
    /\ hdcs' = hdcs + 1
    /\ cpc' = "CreateFont"
    /\ UNCHANGED <<enum_i, hfonts, hfont_valid, selected, defers, collect_ret,
                   system_font_paths>>
    /\ UNCHANGED enumRest
    /\ UNCHANGED <<stateVars, matched>>
    /\ UnchangedRaster /\ UnchangedCallers

(* CreateFontIndirectW; if hfont.is_invalid() { GetLastError()?; }; the guard
   that deletes hfont.  created: a valid handle came back; error: GetLastError
   reports one. *)
CollectCreateFont(created, error) ==
    /\ new_pc = "enumerating" /\ cpc = "CreateFont"
    /\ IF ~created /\ error
       THEN /\ CollectReturns("err", defers, HandleState)
       ELSE /\ hfonts' = IF created THEN hfonts + 1 ELSE hfonts
            /\ hfont_valid' = created
            /\ defers' = Append(defers, "DeleteObject")
            /\ cpc' = "Factory"
            /\ UNCHANGED <<enum_i, selected, collect_ret>>
    /\ UNCHANGED <<hdcs, system_font_paths>>
    /\ UNCHANGED enumRest
    /\ UNCHANGED <<stateVars, matched>>
    /\ UnchangedRaster /\ UnchangedCallers

collectRest == <<hdcs, new_pc, enum_hdc, load_left>>

(* A step of collect_system_font_path that either fails, and the function
   returns the error, or goes on to the step named next *)
CollectTry(at, ok, next) ==
    /\ new_pc = "enumerating" /\ cpc = at
    /\ IF ~ok
       THEN CollectReturns("err", defers, HandleState)
       ELSE /\ cpc' = next
            /\ UNCHANGED <<enum_i, hfonts, hfont_valid, selected, defers, collect_ret>>
    /\ UNCHANGED system_font_paths
    /\ UNCHANGED collectRest
    /\ UNCHANGED <<stateVars, matched>>
    /\ UnchangedRaster /\ UnchangedCallers

(* let dwrite_factory = DWriteCreateFactory(DWRITE_FACTORY_TYPE_ISOLATED)? *)
CollectFactory(ok) == CollectTry("Factory", ok, "Interop")

(* let gdi_interop = dwrite_factory.GetGdiInterop()? *)
CollectInterop(ok) == CollectTry("Interop", ok, "Select")

(* let prev_selection = SelectObject(hdc, hfont), and the guard that restores
   the selection; an invalid hfont is not selected *)
CollectSelect ==
    /\ new_pc = "enumerating" /\ cpc = "Select"
    /\ selected' = hfont_valid
    /\ defers' = Append(defers, "SelectObject")
    /\ cpc' = "FontFace"
    /\ UNCHANGED <<enum_i, hfonts, hfont_valid, collect_ret, system_font_paths>>
    /\ UNCHANGED collectRest
    /\ UNCHANGED <<stateVars, matched>>
    /\ UnchangedRaster /\ UnchangedCallers

(* let font_face = gdi_interop.CreateFontFaceFromHdc(hdc)? *)
CollectFontFace(ok) == CollectTry("FontFace", ok, "GetFiles")

(* font_face.GetFiles(&mut files_len, None)?; font_face.GetFiles(.., Some(..))? *)
CollectGetFiles(ok) == CollectTry("GetFiles", ok, "Paths")

(* for font_file in font_files: get_font_file_path(font_file).log_err(), the
   path inserted when it resolved; Ok(()) *)
CollectPaths(resolved) ==
    /\ new_pc = "enumerating" /\ cpc = "Paths"
    /\ CollectReturns("ok", defers, HandleState)
    /\ system_font_paths' = IF resolved THEN system_font_paths \cup {PathOf(enum_i)}
                            ELSE system_font_paths
    /\ UNCHANGED collectRest
    /\ UNCHANGED <<stateVars, matched>>
    /\ UnchangedRaster /\ UnchangedCallers

(* EnumFontFamiliesExW returns; for font_path in &state.system_font_paths *)
EnumEnd ==
    /\ new_pc = "enumerating" /\ cpc = "none"
    /\ enum_i = NumEnumFonts + 1
    /\ load_left' = system_font_paths
    /\ new_pc' = "loading"
    /\ UNCHANGED <<enum_i, enum_hdc, cpc, hdcs, hfonts, hfont_valid, selected, defers,
                   collect_ret, system_font_paths>>
    /\ UNCHANGED <<stateVars, matched>>
    /\ UnchangedRaster /\ UnchangedCallers

(* font_db.load_font_file(font_path).log_err() *)
LoadFontFile(path, parses) ==
    /\ new_pc = "loading"
    /\ path \in load_left
    /\ load_left' = load_left \ {path}
    /\ db' = IF parses THEN db \cup {FaceOfPath(path)} ELSE db
    /\ UNCHANGED <<fonts, font_selections, font_ids_by_family_name, matched>>
    /\ UNCHANGED <<new_pc, enum_i, enum_hdc, cpc, hdcs, hfonts, hfont_valid, selected,
                   defers, collect_ret, system_font_paths>>
    /\ UnchangedRaster /\ UnchangedCallers

(* let icon_font_id = this.font_id(&icon_font).log_err(); this *)
NewReturns ==
    /\ new_pc = "loading"
    /\ load_left = {}
    /\ LET r == FontIdResolve(IconFont)
       IN  IF IsHit(IconFont)
           THEN UNCHANGED <<fonts, font_selections, font_ids_by_family_name, matched>>
           ELSE /\ fonts' = r.fonts
                /\ font_ids_by_family_name' = r.families
                /\ font_selections' = r.selections
                /\ matched' = r.matched
    /\ new_pc' = "running"
    /\ UNCHANGED <<db, enum_i, enum_hdc, cpc, hdcs, hfonts, hfont_valid, selected,
                   defers, load_left, collect_ret, system_font_paths>>
    /\ UnchangedRaster /\ UnchangedCallers

NextNew ==
    \/ \E loads \in BOOLEAN : LoadUiIconsFont(loads)
    \/ EnumBegin
    \/ \E truetype \in BOOLEAN : EnumCallback(truetype)
    \/ CollectGetDC
    \/ \E created, error \in BOOLEAN : CollectCreateFont(created, error)
    \/ \E ok \in BOOLEAN : CollectFactory(ok)
    \/ \E ok \in BOOLEAN : CollectInterop(ok)
    \/ CollectSelect
    \/ \E ok \in BOOLEAN : CollectFontFace(ok)
    \/ \E ok \in BOOLEAN : CollectGetFiles(ok)
    \/ \E resolved \in BOOLEAN : CollectPaths(resolved)
    \/ EnumEnd
    \/ \E path \in {PathOf(i) : i \in EnumFonts} : \E parses \in BOOLEAN : LoadFontFile(path, parses)
    \/ NewReturns

SpecNew == InitNew /\ [][NextNew]_vars

(* C5: when collect_system_font_path has returned, the device context, the GDI
   font handle and the selection it made are all released, and after the pass
   no handle the pass acquired is outstanding. *)
C5_HandlesReleased ==
    /\ (cpc = "none" /\ collect_ret # "none")
          => (hdcs = 0 /\ hfonts = 0 /\ ~selected)
    /\ new_pc \in {"loading", "running"}
          => (hdcs = 0 /\ hfonts = 0 /\ ~selected /\ enum_hdc = 0)

(* C6: new() completes whatever font files fail to load, the icon font's
   included: construction never aborts. *)
C6_NewNeverAborts == new_pc # "panicked"

====
